---- MODULE Spec2Model ----
(***************************************************************************)
(* Inventory ledger of src/app.py: the JSON-backed store (JSONDatabase),   *)
(* its location ledger (inventory_locations, transfer_inventory) and the   *)
(* stock handlers of the dashboard (Receive / Adjust / Transfer / Deduct   *)
(* Stock) and of invoice creation.                                         *)
(***************************************************************************)
EXTENDS Integers, Sequences, FiniteSets, TLC

\* ---------------------------------------------------------------- bounds
MaxQty == 2        \* largest initial quantity and largest quantity argument explored
MaxOps == 1        \* stock operations submitted per behaviour
MaxScenarioQty == 10   \* largest quantity of the transfer / sale / adjustment scenario
MaxLogins == 6          \* login attempts in a behaviour of SpecLogin
MaxWaits == 1           \* days the clock of SpecLogin runs

\* ------------------------------------------------------ program constants
AdjustLimit == 1000   \* number_input("Adjustment (+/-)", min_value=-1000, max_value=1000)

ProductIds == {"p1", "p2"}
LocationIds == {"A", "B"}
Reasons == {"Damaged", "Other"}
None == "None"
Unset == "unset"      \* st.session_state has no attribute user_id
UserId == "u1"
LocKey == "inventory_locations"
UnknownLocation == "Z"   \* a to_location_id that is no id of db.get_locations()
NewProductId == "p3"     \* the uuid add_inventory_item gives the product it appends
Barcodes == {"", "b1", "b2"}   \* what is typed into the "Barcode" field; "" is none
CustomReason == "expired"      \* what is typed into "Specify Reason" when the reason is Other
Callers == {"c1", "c2"}  \* browser sessions, each running the script on its own

VARIABLES
    inventory,            \* self.data['inventory']: product id -> record
    data_keys,            \* which of the optional collections self.data holds
    inventory_locations,  \* self.data['inventory_locations'] (a list of rows)
    audit_log,            \* self.data['audit_log']
    invoices,             \* self.data['invoices']
    invoice_items,        \* self.data['invoice_items']
    cart,                 \* st.session_state.invoice_items
    session_user,         \* st.session_state.user_id
    ops,                  \* stock operations submitted so far (accepted or rejected)
    last,                 \* the operation performed last and what it reported
    backups,              \* self.data['backups']
    sessions,             \* per caller: its script run's position and its own JSONDatabase().data
    start,                \* the store as it was loaded at the start
    payments,             \* self.data['payments']
    users,                \* self.data['users']: username -> record
    now                   \* datetime.datetime.now(), in seconds since 2000-01-01

vars == <<inventory, data_keys, inventory_locations, audit_log, invoices,
          invoice_items, cart, session_user, ops, last, backups, sessions, start,
          payments, users, now>>

data == <<inventory, data_keys, inventory_locations, audit_log, invoices, invoice_items>>

\* payments, user accounts and the clock
office == <<payments, users, now>>

\* ------------------------------------------------------------ pure helpers
Max(a, b) == IF a >= b THEN a ELSE b

RECURSIVE SumQuantity(_)
SumQuantity(rows) ==
    IF rows = << >> THEN 0 ELSE Head(rows).quantity + SumQuantity(Tail(rows))

\* get_inventory_locations(product_id, location_id)
GetInventoryLocations(rows, product_id, location_id) ==
    SelectSeq(rows, LAMBDA il : il.product_id = product_id /\ il.location_id = location_id)

\* get_inventory_locations(product_id=product_id)
GetInventoryLocationsOfProduct(rows, product_id) ==
    SelectSeq(rows, LAMBDA il : il.product_id = product_id)

\* get_total_inventory_by_product
GetTotalInventoryByProduct(rows, product_id) ==
    SumQuantity(GetInventoryLocationsOfProduct(rows, product_id))

\* next((il for il in ...), None): the first matching row, as a sequence of length <= 1
FirstOf(rows) == IF rows = << >> THEN << >> ELSE <<Head(rows)>>

\* (mutation) the update is made on a copy of the row and never reaches the list
UpdateInventoryLocation_OnCopy(rows, id, quantity) == rows

\* update_inventory_location: the first row with this id gets the new quantity
UpdateInventoryLocation(rows, id, quantity) ==
    LET hits == {i \in DOMAIN rows : rows[i].id = id}
    IN  IF hits = {} THEN rows
        ELSE LET k == CHOOSE i \in hits : \A j \in hits : i <= j
             IN  [rows EXCEPT ![k].quantity = quantity]

\* add_inventory_location: a row with a fresh id is appended, never merged
AddInventoryLocation(rows, product_id, location_id, quantity) ==
    Append(rows, [id |-> Len(rows) + 1, product_id |-> product_id,
                  location_id |-> location_id, quantity |-> quantity])

\* log_audit
AuditEntry(user_id, action, product, quantity, from, to, reason, new_qty) ==
    [user_id |-> user_id, action |-> action, product |-> product, quantity |-> quantity,
     from |-> from, to |-> to, reason |-> reason, new_qty |-> new_qty]

LogAudit(log, entry) == Append(log, entry)

\* (mutation) the update is made and never stored
UpdateInventoryItem_Dropped(inv, item_id, quantity) == inv

\* update_inventory_item(item_id, {'quantity': q})
UpdateInventoryItem(inv, item_id, quantity) ==
    IF item_id \in DOMAIN inv THEN [inv EXCEPT ![item_id].quantity = quantity] ELSE inv

\* ------------------------------------------------ JSONDatabase.transfer_inventory
\* What the call leaves behind: the rows, the audit log, and the (ok, message) pair
\* it returns.  msg is "ok", "not_enough" ("Not enough inventory at source
\* location") or "error" ("Error transferring inventory: ...", the except branch).
TransferInventory(keys, rows, log, user, product_id, from_location_id, to_location_id, quantity, reason) ==
    IF LocKey \notin keys
    THEN \* self.data['inventory_locations'] raises KeyError on the first line of the try
         [rows |-> rows, log |-> log, ok |-> FALSE, msg |-> "error"]
    ELSE
    LET source == FirstOf(GetInventoryLocations(rows, product_id, from_location_id))
    IN  IF source = << >> \/ source[1].quantity < quantity
        THEN [rows |-> rows, log |-> log, ok |-> FALSE, msg |-> "not_enough"]
        ELSE
        LET rows1 == UpdateInventoryLocation(rows, source[1].id, source[1].quantity - quantity)
            dest  == FirstOf(GetInventoryLocations(rows1, product_id, to_location_id))
            rows2 == IF dest # << >>
                     THEN UpdateInventoryLocation(rows1, dest[1].id, dest[1].quantity + quantity)
                     ELSE AddInventoryLocation(rows1, product_id, to_location_id, quantity)
        IN  IF user = Unset
            THEN \* st.session_state.user_id raises AttributeError after both writes
                 [rows |-> rows2, log |-> log, ok |-> FALSE, msg |-> "error"]
            ELSE [rows |-> rows2,
                  log  |-> LogAudit(log, AuditEntry(user, "inventory_transfer", product_id, quantity,
                                                    from_location_id, to_location_id, reason, None)),
                  ok |-> TRUE, msg |-> "ok"]

\* ------------------------------------------ inventory_dashboard: Receive Stock
ReceiveStock(inv, log, user, product_id, quantity) ==
    LET product == inv[product_id]
        new_qty == product.quantity + quantity
    IN  [inv |-> UpdateInventoryItem(inv, product_id, new_qty),
         log |-> LogAudit(log, AuditEntry(user, "stock_received", product.name, quantity,
                                          None, None, None, new_qty)),
         ok |-> TRUE, msg |-> "ok"]

\* (mutation) Adjust Stock without the "Cannot have negative stock" branch
AdjustStock_NoCheck(inv, log, user, product_id, adjustment, reason) ==
    LET product == inv[product_id]
        new_qty == product.quantity + adjustment
    IN  [inv |-> UpdateInventoryItem(inv, product_id, new_qty),
         log |-> LogAudit(log, AuditEntry(user, "stock_adjusted", product.name, adjustment,
                                          None, None, reason, new_qty)),
         ok |-> TRUE, msg |-> "ok"]

\* ------------------------------------------- inventory_dashboard: Adjust Stock
AdjustStock(inv, log, user, product_id, adjustment, reason) ==
    LET product == inv[product_id]
        new_qty == product.quantity + adjustment
    IN  IF new_qty < 0
        THEN [inv |-> inv, log |-> log, ok |-> FALSE, msg |-> "negative"]
        ELSE [inv |-> UpdateInventoryItem(inv, product_id, new_qty),
              log |-> LogAudit(log, AuditEntry(user, "stock_adjusted", product.name, adjustment,
                                               None, None, reason, new_qty)),
              ok |-> TRUE, msg |-> "ok"]

\* (mutation) Transfer Stock writes its audit entry before the two checks
TransferStock_LogFirst(inv, log, user, product_id, from_location, to_location, quantity) ==
    LET product == inv[product_id]
        log1 == LogAudit(log, AuditEntry(user, "stock_transferred", product.name, quantity,
                                         from_location, to_location, None, None))
    IN  IF product.location_id # from_location
        THEN [inv |-> inv, log |-> log1, ok |-> FALSE, msg |-> "not_at_source"]
        ELSE IF product.quantity < quantity
        THEN [inv |-> inv, log |-> log1, ok |-> FALSE, msg |-> "not_enough"]
        ELSE [inv |-> UpdateInventoryItem(inv, product_id, product.quantity - quantity),
              log |-> log1, ok |-> TRUE, msg |-> "ok"]

\* ----------------------------------------- inventory_dashboard: Transfer Stock
TransferStock(inv, log, user, product_id, from_location, to_location, quantity) ==
    LET product == inv[product_id]
    IN  IF product.location_id # from_location
        THEN [inv |-> inv, log |-> log, ok |-> FALSE, msg |-> "not_at_source"]
        ELSE IF product.quantity < quantity
        THEN [inv |-> inv, log |-> log, ok |-> FALSE, msg |-> "not_enough"]
        ELSE LET new_source_qty == product.quantity - quantity
             IN  [inv |-> UpdateInventoryItem(inv, product_id, new_source_qty),
                  log |-> LogAudit(log, AuditEntry(user, "stock_transferred", product.name, quantity,
                                                   from_location, to_location, None, None)),
                  ok |-> TRUE, msg |-> "ok"]

\* ------------------------------------------- inventory_dashboard: Deduct Stock
DeductStock(inv, log, user, product_id, deduct_qty, reason) ==
    LET product == inv[product_id]
        diff    == product.quantity - deduct_qty
        new_qty == IF diff < 0 THEN 0 ELSE diff
    IN  [inv |-> UpdateInventoryItem(inv, product_id, new_qty),
         log |-> LogAudit(log, AuditEntry(user, "stock_deducted", product.name, deduct_qty,
                                          None, None, reason, None)),
         ok |-> TRUE, msg |-> "ok"]

\* (mutation) the sale deduction without max(0, ...)
RECURSIVE DeductLines_NoClamp(_, _)
DeductLines_NoClamp(inv, lines) ==
    IF lines = << >> THEN inv
    ELSE LET item == Head(lines)
             inv1 == IF item.item_id \in DOMAIN inv
                     THEN UpdateInventoryItem(inv, item.item_id,
                                              inv[item.item_id].quantity - item.quantity)
                     ELSE inv
         IN  DeductLines_NoClamp(inv1, Tail(lines))

\* ------------------------------------------ invoice_management: Create Invoice
\* The loop over st.session_state.invoice_items: each line is stored as an invoice
\* item and deducted from the stock the previous lines left.
RECURSIVE DeductLines(_, _)
DeductLines(inv, lines) ==
    IF lines = << >> THEN inv
    ELSE LET item == Head(lines)
             inv1 == IF item.item_id \in DOMAIN inv
                     THEN UpdateInventoryItem(inv, item.item_id,
                                              Max(0, inv[item.item_id].quantity - item.quantity))
                     ELSE inv
         IN  DeductLines(inv1, Tail(lines))

\* add_invoice
AddInvoice(invs, invoice_data) ==
    Append(invs, [f \in DOMAIN invoice_data \cup {"id"} |->
                     IF f = "id" THEN Len(invs) + 1 ELSE invoice_data[f]])

\* invoice_data of "Create Invoice"; amounts are in cents
InvoiceData(total) ==
    [status |-> "pending", total_amount |-> total, amount_paid |-> 0, balance |-> total]

\* total = subtotal + tax_amount + shipping_cost, with every unit priced at one cent
\* and neither tax nor shipping
InvoiceTotal(lines) == SumQuantity(lines)

\* add_invoice_item, once per line
RECURSIVE AddInvoiceItems(_, _, _)
AddInvoiceItems(items, invoice_id, lines) ==
    IF lines = << >> THEN items
    ELSE AddInvoiceItems(Append(items, [invoice_id |-> invoice_id, item_id |-> Head(lines).item_id,
                                        quantity |-> Head(lines).quantity]),
                         invoice_id, Tail(lines))

\* ------------------------------------------------------------------- Init
\* JSONDatabase.__init__ loads the data file.  A file written by _initialize_db
\* has no 'inventory_locations' collection.  A file that has one holds at most
\* one row per (product, location), each with a quantity >= 0, and the rows of a
\* product add up to its Product.quantity.
RowOrNone(present, product_id, location_id, quantity) ==
    IF ~present THEN << >>
    ELSE <<[id |-> 0, product_id |-> product_id, location_id |-> location_id,
            quantity |-> quantity]>>

\* uuid4 ids: every row its own id
Renumber(rows) == [i \in DOMAIN rows |-> [rows[i] EXCEPT !.id = i]]

InitRows(hasA, x, hasB, y) ==
    Renumber(RowOrNone(hasA, "p1", "A", x) \o RowOrNone(hasB, "p1", "B", y)
             \o RowOrNone(TRUE, "p2", "A", 1))

InitInventory(q1) ==
    [p \in ProductIds |->
        IF p = "p1" THEN [name |-> "n1", quantity |-> q1, location_id |-> "A", barcode |-> "b1"]
                    ELSE [name |-> "n2", quantity |-> 1, location_id |-> None, barcode |-> ""]]

NoOp == [op |-> "init", product |-> None, from |-> None, to |-> None, qty |-> 0,
         ok |-> TRUE, msg |-> "ok"]

Done(op, product, from, to, qty, r) ==
    [op |-> op, product |-> product, from |-> from, to |-> to, qty |-> qty,
     ok |-> r.ok, msg |-> r.msg]

InitStore ==
    /\ \/ /\ data_keys = {}
          /\ inventory_locations = << >>
          /\ \E q1 \in 0..MaxQty : inventory = InitInventory(q1)
       \/ /\ data_keys = {LocKey}
          /\ \E hasA \in BOOLEAN, hasB \in BOOLEAN, x \in 0..MaxQty, y \in 0..MaxQty :
                /\ hasA \/ x = 0
                /\ hasB \/ y = 0
                /\ inventory_locations = InitRows(hasA, x, hasB, y)
                /\ IF hasA \/ hasB
                   THEN inventory = InitInventory(x + y)
                   ELSE \E q1 \in 0..MaxQty : inventory = InitInventory(q1)
    /\ audit_log = << >>
    /\ invoices = << >>
    /\ invoice_items = << >>

\* what a script run holds after db = JSONDatabase(): its own copy of the file
Loaded(pc, inv, rows, log, call) ==
    [pc |-> pc, inv |-> inv, rows |-> rows, log |-> log, call |-> call]

\* the session state of the browser sessions before anything is submitted
InitSessions ==
    /\ cart = << >>
    /\ session_user = UserId
    /\ ops = 0
    /\ last = NoOp
    /\ sessions = [c \in Callers |-> Loaded("idle", inventory, inventory_locations, audit_log, NoOp)]
    /\ start = [inventory |-> inventory, rows |-> inventory_locations]

\* _hash_password: sha256(password + salt).hexdigest()
HashPassword(password) == <<"sha256", password, "inventory_system_salt">>

\* The admin account _initialize_db creates.  An absent failed_login_attempts reads
\* as 0 and an absent last_failed_login as 2000-01-01, second 0 of the clock.
InitUsers(is_active) ==
    [u \in {"admin"} |->
        [id |-> UserId, password |-> HashPassword("admin123"), is_active |-> is_active,
         failed_login_attempts |-> 0, last_failed_login |-> 0, last_login |-> 0]]

InitOffice ==
    /\ payments = << >>
    /\ users = InitUsers(TRUE)
    /\ now = 0

Init ==
    /\ InitStore
    /\ backups = << >>
    /\ InitSessions
    /\ InitOffice

\* ---------------------------------------------------------------- actions
\* main shows the pages to an authenticated session only, so the handlers run
\* with st.session_state.user_id set by login.
Authenticated == session_user # Unset

\* bounds of the exploration: MaxOps operations, and the invoice form is filled
\* and submitted without another form being submitted in between
MoreOps == ops < MaxOps
NoCart == cart = << >>
CartUnits(lines) == SumQuantity(lines)
QtyInRange(q) == -(2 * MaxQty + 1) <= q /\ q <= 2 * MaxQty + 1
RowsInRange(rows) == \A i \in DOMAIN rows : QtyInRange(rows[i].quantity)

\* db.transfer_inventory(product_id, from, to, quantity, reason): any integer quantity
TransferInventoryCall(p, a, b, q) ==
    LET r == TransferInventory(data_keys, inventory_locations, audit_log, session_user,
                               p, a, b, q, "move")
    IN  /\ MoreOps /\ NoCart
        /\ RowsInRange(r.rows)
        /\ inventory_locations' = r.rows
        /\ audit_log' = r.log
        /\ last' = Done("transfer_inventory", p, a, b, q, r)
        /\ ops' = ops + 1
        /\ UNCHANGED <<inventory, data_keys, invoices, invoice_items, cart, session_user, backups, sessions, start, office>>

\* db.add_inventory_location({'product_id': p, 'location_id': l, 'quantity': q})
AddInventoryLocationCall(p, l, q) ==
    /\ MoreOps /\ NoCart
    /\ IF LocKey \in data_keys
       THEN /\ inventory_locations' = AddInventoryLocation(inventory_locations, p, l, q)
            /\ last' = [op |-> "add_inventory_location", product |-> p, from |-> None, to |-> l,
                        qty |-> q, ok |-> TRUE, msg |-> "ok"]
       ELSE \* KeyError, caught: st.error and return None
            /\ inventory_locations' = inventory_locations
            /\ last' = [op |-> "add_inventory_location", product |-> p, from |-> None, to |-> l,
                        qty |-> q, ok |-> FALSE, msg |-> "error"]
    /\ ops' = ops + 1
    /\ UNCHANGED <<inventory, data_keys, audit_log, invoices, invoice_items, cart, session_user,
                   backups, sessions, start, office>>

\* "Receive Stock": quantity = number_input(min_value=1)
Receive(p, q) ==
    LET r == ReceiveStock(inventory, audit_log, session_user, p, q)
    IN  /\ Authenticated
        /\ MoreOps /\ NoCart
        /\ p \in DOMAIN inventory
        /\ QtyInRange(inventory[p].quantity + q)
        /\ inventory' = r.inv
        /\ audit_log' = r.log
        /\ last' = Done("receive", p, None, None, q, r)
        /\ ops' = ops + 1
        /\ UNCHANGED <<data_keys, inventory_locations, invoices, invoice_items, cart, session_user, backups, sessions, start, office>>

\* "Adjust Stock": adjustment = number_input(min_value=-1000, max_value=1000)
Adjust(p, d, reason) ==
    LET r == AdjustStock(inventory, audit_log, session_user, p, d, reason)
    IN  /\ Authenticated
        /\ MoreOps /\ NoCart
        /\ p \in DOMAIN inventory
        /\ -AdjustLimit <= d /\ d <= AdjustLimit
        /\ QtyInRange(inventory[p].quantity + d)
        /\ inventory' = r.inv
        /\ audit_log' = r.log
        /\ last' = Done("adjust", p, None, None, d, r)
        /\ ops' = ops + 1
        /\ UNCHANGED <<data_keys, inventory_locations, invoices, invoice_items, cart, session_user, backups, sessions, start, office>>

\* "Transfer Stock": quantity = number_input(min_value=1), locations from db.get_locations()
Transfer(p, a, b, q) ==
    LET r == TransferStock(inventory, audit_log, session_user, p, a, b, q)
    IN  /\ Authenticated
        /\ MoreOps /\ NoCart
        /\ p \in DOMAIN inventory
        /\ inventory' = r.inv
        /\ audit_log' = r.log
        /\ last' = Done("transfer", p, a, b, q, r)
        /\ ops' = ops + 1
        /\ UNCHANGED <<data_keys, inventory_locations, invoices, invoice_items, cart, session_user, backups, sessions, start, office>>

\* (mutation) Deduct Stock that also takes the units from the product's first row
Deduct_FromRows(p, q) ==
    LET r == DeductStock(inventory, audit_log, session_user, p, q, "sold")
        held == FirstOf(GetInventoryLocationsOfProduct(inventory_locations, p))
    IN  /\ Authenticated
        /\ MoreOps /\ NoCart
        /\ p \in DOMAIN inventory
        /\ q <= inventory[p].quantity
        /\ inventory' = r.inv
        /\ audit_log' = r.log
        /\ inventory_locations' =
              IF held = << >> THEN inventory_locations
              ELSE UpdateInventoryLocation(inventory_locations, held[1].id, held[1].quantity - q)
        /\ last' = Done("deduct", p, None, None, q, r)
        /\ ops' = ops + 1
        /\ UNCHANGED <<data_keys, invoices, invoice_items, cart, session_user, backups, sessions, start, office>>

\* "Deduct Stock": deduct_qty = number_input(min_value=1, max_value=product['quantity'])
Deduct(p, q) ==
    LET r == DeductStock(inventory, audit_log, session_user, p, q, "sold")
    IN  /\ Authenticated
        /\ MoreOps /\ NoCart
        /\ p \in DOMAIN inventory
        /\ q <= inventory[p].quantity
        /\ inventory' = r.inv
        /\ audit_log' = r.log
        /\ last' = Done("deduct", p, None, None, q, r)
        /\ ops' = ops + 1
        /\ UNCHANGED <<data_keys, inventory_locations, invoices, invoice_items, cart, session_user, backups, sessions, start, office>>

\* "Add Item to Invoice": quantity = number_input(min_value=1, max_value=max_qty)
AddItem(p, q) ==
    /\ Authenticated
    /\ MoreOps
    /\ p \in DOMAIN inventory
    /\ CartUnits(cart) + q <= MaxQty + 1
    /\ q <= inventory[p].quantity
    /\ cart' = Append(cart, [item_id |-> p, quantity |-> q])
    /\ last' = [op |-> "add_item", product |-> p, from |-> None, to |-> None, qty |-> q,
                ok |-> TRUE, msg |-> "ok"]
    /\ UNCHANGED <<data, session_user, ops, backups, sessions, start, office>>

\* "Create Invoice" with a customer selected and at least one item in the cart
CreateInvoice ==
    /\ Authenticated
    /\ cart # << >>
    /\ MoreOps
    /\ invoices' = AddInvoice(invoices, InvoiceData(InvoiceTotal(cart)))
    /\ invoice_items' = AddInvoiceItems(invoice_items, Len(invoices) + 1, cart)
    /\ inventory' = DeductLines(inventory, cart)
    /\ cart' = << >>
    /\ ops' = ops + 1
    /\ last' = [op |-> "create_invoice", product |-> None, from |-> None, to |-> None,
                qty |-> Len(cart), ok |-> TRUE, msg |-> "ok"]
    /\ UNCHANGED <<data_keys, inventory_locations, audit_log, session_user, backups, sessions, start, office>>

Next ==
    \/ \E p \in ProductIds, a \in LocationIds, b \in LocationIds \cup {UnknownLocation},
             q \in -1..(MaxQty + 1) :
          TransferInventoryCall(p, a, b, q)
    \/ \E p \in ProductIds, l \in LocationIds, q \in 1..MaxQty : AddInventoryLocationCall(p, l, q)
    \/ \E p \in ProductIds, q \in 1..MaxQty : Receive(p, q)
    \/ \E p \in ProductIds, d \in -(MaxQty + 1)..MaxQty, reason \in Reasons : Adjust(p, d, reason)
    \/ \E p \in ProductIds, a \in LocationIds, b \in LocationIds, q \in 1..(MaxQty + 1) :
          Transfer(p, a, b, q)
    \/ \E p \in ProductIds, q \in 1..MaxQty : Deduct(p, q)
    \/ \E p \in ProductIds, q \in 1..MaxQty : AddItem(p, q)
    \/ CreateInvoice

Spec == Init /\ [][Next]_vars

\* ------------------------------------------------------- concurrent sessions
\* Every browser session runs the script on its own: db = JSONDatabase() loads the
\* file into the run's own self.data, the handler reads, checks and writes that
\* copy, and every _save_data() writes the whole copy over the file.  In this
\* specification inventory, inventory_locations and audit_log are the file, and
\* sessions[c] is what the run of caller c holds.  Each caller submits one operation.

\* _save_data: json.dump(self.data) over the file
SaveData(s) ==
    /\ inventory' = s.inv
    /\ inventory_locations' = s.rows
    /\ audit_log' = s.log

Pending(op, product, from, to, qty) ==
    [op |-> op, product |-> product, from |-> from, to |-> to, qty |-> qty,
     ok |-> FALSE, msg |-> "pending"]

\* the first half of transfer_inventory's body: the source row after the decrement
DebitSource(rows, source, quantity) ==
    UpdateInventoryLocation(rows, source[1].id, source[1].quantity - quantity)

\* the second half: the destination row is updated, or a row is created
CreditDestination(rows, product_id, to_location_id, quantity) ==
    LET dest == FirstOf(GetInventoryLocations(rows, product_id, to_location_id))
    IN  IF dest # << >>
        THEN UpdateInventoryLocation(rows, dest[1].id, dest[1].quantity + quantity)
        ELSE AddInventoryLocation(rows, product_id, to_location_id, quantity)

\* db = JSONDatabase() at the top of the script: _load_data
Load(c) ==
    /\ sessions[c].pc = "idle"
    /\ sessions' = [sessions EXCEPT
                      ![c] = Loaded("loaded", inventory, inventory_locations, audit_log, NoOp)]
    /\ UNCHANGED <<data, cart, session_user, ops, last, backups, start, office>>

\* "Adjust Stock" submitted in the run of caller c
AdjustRun(c, p, d, reason) ==
    LET s  == sessions[c]
        r  == AdjustStock(s.inv, s.log, session_user, p, d, reason)
        s1 == Loaded("done", r.inv, s.rows, r.log, Done("adjust", p, None, None, d, r))
    IN  /\ s.pc = "loaded"
        /\ p \in DOMAIN s.inv
        /\ sessions' = [sessions EXCEPT ![c] = s1]
        /\ IF r.ok THEN SaveData(s1)
                   ELSE UNCHANGED <<inventory, inventory_locations, audit_log>>
        /\ UNCHANGED <<data_keys, invoices, invoice_items, cart, session_user, ops, last,
                       backups, start, office>>

\* "Deduct Stock" submitted in the run of caller c
DeductRun(c, p, q) ==
    LET s  == sessions[c]
        r  == DeductStock(s.inv, s.log, session_user, p, q, "sold")
        s1 == Loaded("done", r.inv, s.rows, r.log, Done("deduct", p, None, None, q, r))
    IN  /\ s.pc = "loaded"
        /\ p \in DOMAIN s.inv
        /\ q <= s.inv[p].quantity
        /\ sessions' = [sessions EXCEPT ![c] = s1]
        /\ SaveData(s1)
        /\ UNCHANGED <<data_keys, invoices, invoice_items, cart, session_user, ops, last,
                       backups, start, office>>

\* transfer_inventory in the run of caller c, up to the first _save_data: the check
\* of the source row and update_inventory_location(source)
TransferDebit(c, p, a, b, q) ==
    LET s      == sessions[c]
        source == FirstOf(GetInventoryLocations(s.rows, p, a))
    IN  /\ s.pc = "loaded"
        /\ IF LocKey \notin data_keys
           THEN /\ sessions' = [sessions EXCEPT ![c] =
                      Loaded("done", s.inv, s.rows, s.log,
                             [Pending("transfer_inventory", p, a, b, q) EXCEPT !.msg = "error"])]
                /\ UNCHANGED <<inventory, inventory_locations, audit_log>>
           ELSE IF source = << >> \/ source[1].quantity < q
           THEN /\ sessions' = [sessions EXCEPT ![c] =
                      Loaded("done", s.inv, s.rows, s.log,
                             [Pending("transfer_inventory", p, a, b, q) EXCEPT !.msg = "not_enough"])]
                /\ UNCHANGED <<inventory, inventory_locations, audit_log>>
           ELSE LET s1 == Loaded("credit", s.inv, DebitSource(s.rows, source, q), s.log,
                                 Pending("transfer_inventory", p, a, b, q))
                IN  /\ sessions' = [sessions EXCEPT ![c] = s1]
                    /\ SaveData(s1)
        /\ UNCHANGED <<data_keys, invoices, invoice_items, cart, session_user, ops, last,
                       backups, start, office>>

\* ... up to the second _save_data: update_inventory_location(dest) or add_inventory_location
TransferCredit(c) ==
    LET s  == sessions[c]
        s1 == Loaded("log", s.inv,
                     CreditDestination(s.rows, s.call.product, s.call.to, s.call.qty),
                     s.log, s.call)
    IN  /\ s.pc = "credit"
        /\ sessions' = [sessions EXCEPT ![c] = s1]
        /\ SaveData(s1)
        /\ UNCHANGED <<data_keys, invoices, invoice_items, cart, session_user, ops, last,
                       backups, start, office>>

\* ... log_audit, its _save_data, and return True
TransferLog(c) ==
    LET s  == sessions[c]
        s1 == Loaded("done", s.inv, s.rows,
                     LogAudit(s.log, AuditEntry(session_user, "inventory_transfer", s.call.product,
                                                s.call.qty, s.call.from, s.call.to, "move", None)),
                     [s.call EXCEPT !.ok = TRUE, !.msg = "ok"])
    IN  /\ s.pc = "log"
        /\ sessions' = [sessions EXCEPT ![c] = s1]
        /\ SaveData(s1)
        /\ UNCHANGED <<data_keys, invoices, invoice_items, cart, session_user, ops, last,
                       backups, start, office>>

NextConcurrent ==
    \/ \E c \in Callers : Load(c)
    \/ \E c \in Callers, p \in ProductIds, d \in -1..MaxQty, reason \in Reasons :
          AdjustRun(c, p, d, reason)
    \/ \E c \in Callers, p \in ProductIds, q \in 1..MaxQty : DeductRun(c, p, q)
    \/ \E c \in Callers, p \in ProductIds, a \in LocationIds, b \in LocationIds, q \in 1..MaxQty :
          TransferDebit(c, p, a, b, q)
    \/ \E c \in Callers : TransferCredit(c)
    \/ \E c \in Callers : TransferLog(c)

SpecConcurrent == Init /\ [][NextConcurrent]_vars

\* ------------------------------------------------- backups and product deletion
\* json.dumps(self.data): what create_backup stores when it is given no backup_data
DumpData(inv, rows, log) ==
    [inventory |-> inv, inventory_locations |-> rows, audit_log |-> log]

\* "Create Backup Now": the sections the form's checkboxes select
BackupData(include_products, inv) ==
    IF include_products THEN [metadata |-> "backup", products |-> inv]
                        ELSE [metadata |-> "backup"]

\* create_backup
CreateBackupEntry(bks, backup_data) == Append(bks, [id |-> Len(bks) + 1, data |-> backup_data])

\* (mutation) restore_backup also takes the 'audit_log' section of the backup
RestoreBackup_WithAuditLog(backup, inv, log) ==
    [inv |-> IF "products" \in DOMAIN backup.data THEN backup.data.products ELSE inv,
     log |-> IF "audit_log" \in DOMAIN backup.data THEN backup.data.audit_log ELSE log]

\* restore_backup: of the collections modelled here only 'products' is restored
RestoreBackup(backup, inv, log) ==
    [inv |-> IF "products" \in DOMAIN backup.data THEN backup.data.products ELSE inv,
     log |-> log]

\* delete_inventory_item
DeleteInventoryItem(inv, item_id) == [i \in DOMAIN inv \ {item_id} |-> inv[i]]

\* "Create Backup Now"
CreateBackupNow(include_products) ==
    /\ Authenticated
    /\ MoreOps /\ NoCart
    /\ backups' = CreateBackupEntry(backups, BackupData(include_products, inventory))
    /\ ops' = ops + 1
    /\ last' = [op |-> "create_backup", product |-> None, from |-> None, to |-> None,
                qty |-> 0, ok |-> TRUE, msg |-> "ok"]
    /\ UNCHANGED <<data, cart, session_user, sessions, start, office>>

\* db.create_backup() with its defaults
CreateBackupCall ==
    /\ MoreOps /\ NoCart
    /\ backups' = CreateBackupEntry(backups,
                                    DumpData(inventory, inventory_locations, audit_log))
    /\ ops' = ops + 1
    /\ last' = [op |-> "create_backup", product |-> None, from |-> None, to |-> None,
                qty |-> 0, ok |-> TRUE, msg |-> "ok"]
    /\ UNCHANGED <<data, cart, session_user, sessions, start, office>>

\* the "Restore" button of a listed backup
RestoreBackupNow(i) ==
    LET r == RestoreBackup(backups[i], inventory, audit_log)
    IN  /\ Authenticated
        /\ NoCart
        /\ i \in DOMAIN backups
        /\ inventory' = r.inv
        /\ audit_log' = r.log
        /\ last' = [op |-> "restore_backup", product |-> None, from |-> None, to |-> None,
                    qty |-> i, ok |-> TRUE, msg |-> "ok"]
        /\ UNCHANGED <<data_keys, inventory_locations, invoices, invoice_items, cart,
                       session_user, ops, backups, sessions, start, office>>

\* "Confirm Delete": delete_inventory_item, then log_audit("product_deleted")
DeleteProduct(p) ==
    /\ Authenticated
    /\ MoreOps /\ NoCart
    /\ p \in DOMAIN inventory
    /\ inventory' = DeleteInventoryItem(inventory, p)
    /\ audit_log' = LogAudit(audit_log, AuditEntry(session_user, "product_deleted",
                                                   inventory[p].name, 0, None, None, None, None))
    /\ ops' = ops + 1
    /\ last' = [op |-> "delete_product", product |-> p, from |-> None, to |-> None,
                qty |-> 0, ok |-> TRUE, msg |-> "ok"]
    /\ UNCHANGED <<data_keys, inventory_locations, invoices, invoice_items, cart,
                   session_user, backups, sessions, start, office>>

\* A store with the location collection and the one row of p2, which holds no
\* backup or the backup create_backup() made of it.
InitMaintenance ==
    /\ InitStore
    /\ data_keys = {LocKey}
    /\ Len(inventory_locations) = 1
    /\ \/ backups = << >>
       \/ backups = CreateBackupEntry(<< >>, DumpData(inventory, inventory_locations, audit_log))
    /\ InitSessions
    /\ InitOffice

NextMaintenance ==
    \/ Next
    \/ \E include_products \in BOOLEAN : CreateBackupNow(include_products)
    \/ CreateBackupCall
    \/ \E i \in 1..(MaxOps + 1) : RestoreBackupNow(i)
    \/ \E p \in ProductIds : DeleteProduct(p)

SpecMaintenance == InitMaintenance /\ [][NextMaintenance]_vars

\* ------------------------------------- scenario: transfer, then sale, then adjust
\* Product p1 with all of its stock at location A (and nothing at B) goes through
\* transfer_inventory(p1, A, B, q), then an invoice with one line of p1, then
\* "Adjust Stock" with a negative adjustment.  ops is the position in the scenario.
InitScenario ==
    /\ data_keys = {LocKey}
    /\ \E n \in 0..MaxScenarioQty, hasB \in BOOLEAN :
          /\ inventory_locations = InitRows(TRUE, n, hasB, 0)
          /\ inventory = InitInventory(n)
    /\ audit_log = << >>
    /\ invoices = << >>
    /\ invoice_items = << >>
    /\ backups = << >>
    /\ InitSessions
    /\ InitOffice

ScenarioTransfer(q) ==
    LET r == TransferInventory(data_keys, inventory_locations, audit_log, session_user,
                               "p1", "A", "B", q, "move")
    IN  /\ ops = 0
        /\ inventory_locations' = r.rows
        /\ audit_log' = r.log
        /\ last' = Done("transfer_inventory", "p1", "A", "B", q, r)
        /\ ops' = 1
        /\ UNCHANGED <<inventory, data_keys, invoices, invoice_items, cart, session_user,
                       backups, sessions, start, office>>

\* "Add Item to Invoice": quantity = number_input(min_value=1, max_value=max_qty)
ScenarioAddItem(q) ==
    /\ Authenticated
    /\ ops = 1 /\ cart = << >>
    /\ q <= inventory["p1"].quantity
    /\ cart' = <<[item_id |-> "p1", quantity |-> q]>>
    /\ last' = [op |-> "add_item", product |-> "p1", from |-> None, to |-> None, qty |-> q,
                ok |-> TRUE, msg |-> "ok"]
    /\ UNCHANGED <<data, session_user, ops, backups, sessions, start, office>>

ScenarioCreateInvoice ==
    /\ Authenticated
    /\ ops = 1 /\ cart # << >>
    /\ invoices' = AddInvoice(invoices, InvoiceData(InvoiceTotal(cart)))
    /\ invoice_items' = AddInvoiceItems(invoice_items, Len(invoices) + 1, cart)
    /\ inventory' = DeductLines(inventory, cart)
    /\ cart' = << >>
    /\ ops' = 2
    /\ last' = [op |-> "create_invoice", product |-> "p1", from |-> None, to |-> None,
                qty |-> cart[1].quantity, ok |-> TRUE, msg |-> "ok"]
    /\ UNCHANGED <<data_keys, inventory_locations, audit_log, session_user,
                   backups, sessions, start, office>>

ScenarioAdjust(d) ==
    LET r == AdjustStock(inventory, audit_log, session_user, "p1", d, "Damaged")
    IN  /\ Authenticated
        /\ ops = 2
        /\ -AdjustLimit <= d /\ d <= AdjustLimit
        /\ inventory' = r.inv
        /\ audit_log' = r.log
        /\ last' = Done("adjust", "p1", None, None, d, r)
        /\ ops' = 3
        /\ UNCHANGED <<data_keys, inventory_locations, invoices, invoice_items, cart,
                       session_user, backups, sessions, start, office>>

NextScenario ==
    \/ \E q \in 1..MaxScenarioQty : ScenarioTransfer(q)
    \/ \E q \in 1..MaxScenarioQty : ScenarioAddItem(q)
    \/ ScenarioCreateInvoice
    \/ \E d \in -MaxScenarioQty..(-1) : ScenarioAdjust(d)

SpecScenario == InitScenario /\ [][NextScenario]_vars

\* ------------------------------------------------------------ product catalog
\* add_inventory_item
AddInventoryItem(inv, item_id, item_data) ==
    [i \in DOMAIN inv \cup {item_id} |-> IF i = item_id THEN item_data ELSE inv[i]]

\* update_inventory_item(item_id, update_data): item.update(update_data)
UpdateItemFields(inv, item_id, update_data) ==
    IF item_id \in DOMAIN inv
    THEN [inv EXCEPT ![item_id] =
            [f \in DOMAIN inv[item_id] |->
                IF f \in DOMAIN update_data THEN update_data[f] ELSE inv[item_id][f]]]
    ELSE inv

\* add_product_form: "Add Product" with name, price and category filled in
AddProduct(quantity, barcode) ==
    /\ Authenticated
    /\ MoreOps /\ NoCart
    /\ NewProductId \notin DOMAIN inventory
    /\ inventory' = AddInventoryItem(inventory, NewProductId,
                                     [name |-> "n3", quantity |-> quantity, location_id |-> None,
                                      barcode |-> barcode])
    /\ ops' = ops + 1
    /\ last' = [op |-> "add_product", product |-> NewProductId, from |-> None, to |-> None,
                qty |-> quantity, ok |-> TRUE, msg |-> "ok"]
    /\ UNCHANGED <<data_keys, inventory_locations, audit_log, invoices, invoice_items, cart,
                   session_user, backups, sessions, start, office>>

\* edit_product_form: "Save Changes"; quantity = number_input(min_value=0)
EditProduct(p, quantity, barcode) ==
    /\ Authenticated
    /\ MoreOps /\ NoCart
    /\ p \in DOMAIN inventory
    /\ inventory' = UpdateItemFields(inventory, p, [quantity |-> quantity, barcode |-> barcode])
    /\ ops' = ops + 1
    /\ last' = [op |-> "edit_product", product |-> p, from |-> None, to |-> None,
                qty |-> quantity, ok |-> TRUE, msg |-> "ok"]
    /\ UNCHANGED <<data_keys, inventory_locations, audit_log, invoices, invoice_items, cart,
                   session_user, backups, sessions, start, office>>

\* quick_update_form: "Update Item"; quantity = number_input(min_value=0)
QuickUpdate(p, quantity, location) ==
    /\ Authenticated
    /\ MoreOps /\ NoCart
    /\ p \in DOMAIN inventory
    /\ inventory' = UpdateItemFields(inventory, p, [quantity |-> quantity, location_id |-> location])
    /\ ops' = ops + 1
    /\ last' = [op |-> "quick_update", product |-> p, from |-> None, to |-> location,
                qty |-> quantity, ok |-> TRUE, msg |-> "ok"]
    /\ UNCHANGED <<data_keys, inventory_locations, audit_log, invoices, invoice_items, cart,
                   session_user, backups, sessions, start, office>>

NextCatalog ==
    \/ \E quantity \in 0..MaxQty, barcode \in Barcodes : AddProduct(quantity, barcode)
    \/ \E p \in ProductIds, quantity \in 0..MaxQty, barcode \in Barcodes :
          EditProduct(p, quantity, barcode)
    \/ \E p \in ProductIds, quantity \in 0..MaxQty, location \in LocationIds :
          QuickUpdate(p, quantity, location)
    \/ \E p \in ProductIds : DeleteProduct(p)

SpecCatalog == Init /\ [][NextCatalog]_vars

\* ------------------------------------------------------------ invoice payments
\* Money is counted in whole cents: 0.01 is Cent.
Cent == 1

\* update_invoice(invoice_id, update_data): invoice.update(update_data)
UpdateInvoice(invs, invoice_id, update_data) ==
    [i \in DOMAIN invs |->
        IF invs[i].id = invoice_id
        THEN [f \in DOMAIN invs[i] |->
                 IF f \in DOMAIN update_data THEN update_data[f] ELSE invs[i][f]]
        ELSE invs[i]]

\* add_payment
AddPayment(pays, payment_data) ==
    Append(pays, [id |-> Len(pays) + 1, invoice_id |-> payment_data.invoice_id,
                  amount |-> payment_data.amount])

\* (mutation) Submit Payment that updates the invoice and stores no payment record
RecordPayment_Unrecorded(invs, pays, invoice, amount) ==
    LET new_paid    == invoice.amount_paid + amount
        new_balance == Max(0, invoice.total_amount - new_paid)
        new_status  == IF new_balance <= Cent THEN "paid" ELSE "partially_paid"
    IN  [invoices |-> UpdateInvoice(invs, invoice.id,
                                    [amount_paid |-> new_paid, balance |-> new_balance,
                                     status |-> new_status]),
         payments |-> pays]

\* "Submit Payment" of the Record Payment form of one invoice of the list
RecordPayment(invs, pays, invoice, amount) ==
    LET new_paid    == invoice.amount_paid + amount
        new_balance == Max(0, invoice.total_amount - new_paid)
        new_status  == IF new_balance <= Cent THEN "paid" ELSE "partially_paid"
    IN  [invoices |-> UpdateInvoice(invs, invoice.id,
                                    [amount_paid |-> new_paid, balance |-> new_balance,
                                     status |-> new_status]),
         payments |-> AddPayment(pays, [invoice_id |-> invoice.id, amount |-> amount])]

\* The form is shown when balance > 0.01; amount = number_input(min_value=0.01,
\* max_value=balance).  The status of the invoice is not looked at.
SubmitPayment(i, amount) ==
    /\ Authenticated
    /\ i \in DOMAIN invoices
    /\ invoices[i].balance > Cent
    /\ Cent <= amount /\ amount <= invoices[i].balance
    /\ LET r == RecordPayment(invoices, payments, invoices[i], amount)
       IN  /\ invoices' = r.invoices
           /\ payments' = r.payments
    /\ last' = [op |-> "record_payment", product |-> None, from |-> None, to |-> None,
                qty |-> i, ok |-> TRUE, msg |-> "ok"]
    /\ UNCHANGED <<inventory, data_keys, inventory_locations, audit_log, invoice_items, cart,
                   session_user, ops, backups, sessions, start, users, now>>

\* "Cancel": the button is shown when the status is not 'cancelled'
CancelInvoice(i) ==
    /\ Authenticated
    /\ i \in DOMAIN invoices
    /\ invoices[i].status # "cancelled"
    /\ invoices' = UpdateInvoice(invoices, invoices[i].id, [status |-> "cancelled"])
    /\ last' = [op |-> "cancel_invoice", product |-> None, from |-> None, to |-> None,
                qty |-> i, ok |-> TRUE, msg |-> "ok"]
    /\ UNCHANGED <<inventory, data_keys, inventory_locations, audit_log, invoice_items, cart,
                   session_user, ops, backups, sessions, start, office>>

\* A store with the location collection and one row in it
InitInvoices ==
    /\ Init
    /\ data_keys = {LocKey}
    /\ Len(inventory_locations) = 1

NextInvoices ==
    \/ \E p \in ProductIds, q \in 1..MaxQty : AddItem(p, q)
    \/ CreateInvoice
    \/ \E p \in ProductIds, q \in 1..MaxQty : Deduct(p, q)
    \/ \E i \in 1..MaxOps, amount \in 1..(MaxQty + 1) : SubmitPayment(i, amount)
    \/ \E i \in 1..MaxOps : CancelInvoice(i)

SpecInvoices == InitInvoices /\ [][NextInvoices]_vars

\* ---------------------------------------------------------------------- login
MaxAttempts == 5        \* failed_login_attempts >= 5
LockWindow == 3600      \* "1 hour lock", in seconds
SecondsPerDay == 86400  \* timedelta.seconds is the part of the difference below one day

Usernames == {"admin", "ghost"}
Passwords == {"admin123", "guess"}

\* (now - last_failed).seconds for a difference that is not negative
TimedeltaSeconds(later, earlier) == (later - earlier) % SecondsPerDay

\* update_user(user_id, update_data): user.update(update_data)
UpdateUser(us, user_id, update_data) ==
    [u \in DOMAIN us |->
        IF us[u].id = user_id
        THEN [f \in DOMAIN us[u] |->
                 IF f \in DOMAIN update_data THEN update_data[f] ELSE us[u][f]]
        ELSE us[u]]

\* login(username, password): the user records, the audit log, the session's user_id
\* and the value returned
Login(us, log, session, clock, username, password) ==
    IF username \notin DOMAIN us
    THEN [users |-> us, log |-> log, session |-> session, ok |-> FALSE, msg |-> "no_user"]
    ELSE
    LET user == us[username]
    IN  IF /\ user.failed_login_attempts >= MaxAttempts
           /\ TimedeltaSeconds(clock, user.last_failed_login) < LockWindow
        THEN [users |-> us, log |-> log, session |-> session, ok |-> FALSE, msg |-> "locked"]
        ELSE IF user.password = HashPassword(password) /\ user.is_active
        THEN [users |-> UpdateUser(us, user.id, [failed_login_attempts |-> 0, last_login |-> clock]),
              log |-> LogAudit(log, AuditEntry(user.id, "login", None, None, None, None, None, None)),
              session |-> user.id, ok |-> TRUE, msg |-> "ok"]
        ELSE [users |-> UpdateUser(us, user.id,
                                   [failed_login_attempts |-> user.failed_login_attempts + 1,
                                    last_failed_login |-> clock]),
              log |-> log, session |-> session, ok |-> FALSE, msg |-> "failed"]

\* login_form: "Login" with a username and a password typed in
LoginSubmit(username, password) ==
    LET r == Login(users, audit_log, session_user, now, username, password)
    IN  /\ ops < MaxLogins
        /\ users' = r.users
        /\ audit_log' = r.log
        /\ session_user' = r.session
        /\ ops' = ops + 1
        /\ last' = [op |-> "login", product |-> username, from |-> password, to |-> None,
                    qty |-> 0, ok |-> r.ok, msg |-> r.msg]
        /\ UNCHANGED <<inventory, data_keys, inventory_locations, invoices, invoice_items, cart,
                       backups, sessions, start, payments, now>>

\* datetime.now() moves on between two submissions of the form
Tick(seconds) ==
    /\ now + seconds <= MaxWaits * SecondsPerDay
    /\ now' = now + seconds
    /\ UNCHANGED <<data, cart, session_user, ops, last, backups, sessions, start,
                   payments, users>>

InitLogin ==
    /\ data_keys = {}
    /\ inventory_locations = << >>
    /\ inventory = InitInventory(0)
    /\ audit_log = << >>
    /\ invoices = << >>
    /\ invoice_items = << >>
    /\ backups = << >>
    /\ cart = << >>
    /\ session_user = Unset
    /\ ops = 0
    /\ last = NoOp
    /\ sessions = [c \in Callers |-> Loaded("idle", inventory, inventory_locations, audit_log, NoOp)]
    /\ start = [inventory |-> inventory, rows |-> inventory_locations]
    /\ payments = << >>
    /\ \E is_active \in BOOLEAN : users = InitUsers(is_active)
    /\ now = 0

NextLogin ==
    \/ \E username \in Usernames, password \in Passwords : LoginSubmit(username, password)
    \/ \E seconds \in {LockWindow, SecondsPerDay} : Tick(seconds)

SpecLogin == InitLogin /\ [][NextLogin]_vars

\* ================================================================ claims
\* vocabulary of the claims
StockStep(op) == ops' = ops + 1 /\ last'.op = op

HasRow(rows, p, l) == GetInventoryLocations(rows, p, l) # << >>

QuantityAt(rows, p, l) ==
    IF HasRow(rows, p, l) THEN GetInventoryLocations(rows, p, l)[1].quantity ELSE 0

LinesOf(lines, p) == SelectSeq(lines, LAMBDA item : item.item_id = p)

\* C1: through receive, adjust, transfer, manual deduct and invoice creation every
\* product's Product.quantity stays >= 0.
ProductQuantityNonNegative ==
    \A p \in DOMAIN inventory : inventory[p].quantity >= 0

\* C1 witness: an invoice whose lines for p2 ask for more than the one unit in stock
\* has been created, and p2 stands at 0.
ProductQuantityClampedWitness ==
    /\ last.op = "create_invoice"
    /\ SumQuantity(LinesOf(invoice_items, "p2")) > 1
    /\ inventory["p2"].quantity = 0

\* C2 (as claimed): after any sequence of transfer_inventory calls, with any integer
\* quantity argument, every InventoryLocation row has quantity >= 0.
RowQuantityNonNegative ==
    \A i \in DOMAIN inventory_locations : inventory_locations[i].quantity >= 0

\* C3: transfer_inventory(P, A, B, q) with A # B and 0 < q <= quantityAt(P, A) takes
\* exactly q from the row of (P, A), adds exactly q to the row of (P, B), creating
\* it if absent, and leaves the sum over P's rows unchanged.
TransferConservation ==
    [][ LET p == last'.product  a == last'.from  b == last'.to  q == last'.qty
        IN  (/\ StockStep("transfer_inventory")
             /\ a # b /\ 0 < q
             /\ HasRow(inventory_locations, p, a)
             /\ q <= QuantityAt(inventory_locations, p, a))
            => /\ QuantityAt(inventory_locations', p, a) = QuantityAt(inventory_locations, p, a) - q
               /\ HasRow(inventory_locations', p, b)
               /\ QuantityAt(inventory_locations', p, b) = QuantityAt(inventory_locations, p, b) + q
               /\ GetTotalInventoryByProduct(inventory_locations', p)
                    = GetTotalInventoryByProduct(inventory_locations, p)
      ]_vars

\* C3 witness: a transfer of q > 0 units between two different locations went through.
TransferDoneWitness ==
    /\ last.op = "transfer_inventory" /\ last.ok
    /\ last.qty > 0 /\ last.from # last.to
    /\ QuantityAt(inventory_locations, last.product, last.to) >= last.qty

\* C4 (as claimed): transfer_inventory(P, A, B, q) with q > quantityAt(P, A), or
\* with no row for (P, A), fails with the insufficient-stock error and no row is
\* mutated or created.
TransferInsufficientSource ==
    [][ LET p == last'.product  a == last'.from  q == last'.qty
        IN  (/\ StockStep("transfer_inventory")
             /\ \/ ~HasRow(inventory_locations, p, a)
                \/ q > QuantityAt(inventory_locations, p, a))
            => /\ ~last'.ok
               /\ last'.msg = "not_enough"
               /\ inventory_locations' = inventory_locations
      ]_vars

\* C5 (as claimed): a successful transfer between two locations, by
\* transfer_inventory or by the "Transfer Stock" form, leaves the product's
\* Product.quantity as it was.
TransferKeepsAggregate ==
    [][ (/\ StockStep("transfer_inventory") \/ StockStep("transfer")
         /\ last'.ok /\ last'.from # last'.to)
        => inventory'[last'.product].quantity = inventory[last'.product].quantity
      ]_vars

\* C6: adjust(P, delta) with delta < 0 and |delta| > Product.quantity is rejected
\* ("Cannot have negative stock") and mutates nothing: the products, the location
\* rows, their totals and the audit log are unchanged, and submitting the same
\* adjustment again is rejected again, again without a change.
AdjustRejectedAtomically ==
    [][ LET p == last'.product  d == last'.qty
        IN  (StockStep("adjust") /\ d < 0 /\ -d > inventory[p].quantity)
            => /\ ~last'.ok /\ last'.msg = "negative"
               /\ data' = data
               /\ GetTotalInventoryByProduct(inventory_locations', p)
                    = GetTotalInventoryByProduct(inventory_locations, p)
               /\ \A reason \in Reasons :
                     AdjustStock(inventory', audit_log', session_user', p, d, reason)
                       = [inv |-> inventory', log |-> audit_log', ok |-> FALSE, msg |-> "negative"]
      ]_vars

\* C6 witness: an adjustment below zero has been submitted and rejected.
AdjustRejectedWitness ==
    /\ last.op = "adjust" /\ ~last.ok
    /\ last.qty < 0 /\ inventory[last.product].quantity + last.qty < 0

\* C7 (as claimed): a sale deduction that asks for more than the current quantity
\* does not fail and leaves totalForProduct(P), the sum over P's location rows, at 0.
\* (The lines of an invoice for P ask for more than Product.quantity exactly when
\* one of its per-line deductions does.)
DeductClampsTotal ==
    [][ StockStep("create_invoice")
        => \A p \in ProductIds :
              SumQuantity(LinesOf(cart, p)) > inventory[p].quantity
              => /\ last'.ok
                 /\ GetTotalInventoryByProduct(inventory_locations', p) = 0
      ]_vars

\* C8 (as claimed): receive(P, q) with q > 0 always succeeds and increases
\* totalForProduct(P), the sum over P's location rows, by exactly q (read in a
\* store that has the location collection, where the sum can be taken).
ReceiveIncreasesTotal ==
    [][ (StockStep("receive") /\ LocKey \in data_keys)
        => /\ last'.ok
           /\ GetTotalInventoryByProduct(inventory_locations', last'.product)
                = GetTotalInventoryByProduct(inventory_locations, last'.product) + last'.qty
      ]_vars

\* C9 (as claimed): every successful mutating stock operation appends exactly one
\* audit entry of the matching kind for the product and quantity concerned; the
\* sale deduction of invoice creation appends one per line.
AuditKind(op) ==
    CASE op = "receive" -> "stock_received"
      [] op = "adjust" -> "stock_adjusted"
      [] op = "transfer" -> "stock_transferred"
      [] op = "deduct" -> "stock_deducted"
      [] op = "transfer_inventory" -> "inventory_transfer"
      [] OTHER -> "stock_deducted"

OneMatchingEntry(op) ==
    /\ Len(audit_log') = Len(audit_log) + 1
    /\ SubSeq(audit_log', 1, Len(audit_log)) = audit_log
    /\ LET e == audit_log'[Len(audit_log')]
       IN  /\ e.action = AuditKind(op)
           /\ e.user_id = session_user
           /\ e.product \in {last'.product, inventory[last'.product].name}
           /\ e.quantity = last'.qty
           /\ op \in {"transfer", "transfer_inventory"} => e.from = last'.from /\ e.to = last'.to

AuditOnePerOperation ==
    [][ /\ \A op \in {"receive", "adjust", "transfer", "deduct", "transfer_inventory"} :
              (StockStep(op) /\ last'.ok) => OneMatchingEntry(op)
        /\ StockStep("create_invoice") =>
              /\ Len(audit_log') = Len(audit_log) + Len(cart)
              /\ \A i \in 1..Len(cart) :
                    /\ audit_log'[Len(audit_log) + i].action = "stock_deducted"
                    /\ audit_log'[Len(audit_log) + i].quantity = cart[i].quantity
      ]_vars

\* C10: a stock operation that reports failure (a rejected adjustment, a transfer
\* rejected for insufficient stock or for a product not at the source location, a
\* transfer that reports an error) leaves the audit log exactly as it was.
FailedAppendsNothing ==
    [][ (ops' = ops + 1 /\ ~last'.ok) => audit_log' = audit_log ]_vars

\* C10 witness: the "Transfer Stock" form has been rejected because the product is
\* not at the chosen source location.
TransferRejectedWitness ==
    /\ last.op = "transfer" /\ ~last.ok /\ last.msg = "not_at_source"
    /\ inventory[last.product].location_id # last.from

\* C11 (as claimed): two concurrent adjust calls on the same product, with deltas
\* whose partial sums never go below zero, each run by a caller with its own loaded
\* copy of the store, end with Product.quantity = initial + d1 + d2.
NoLostAdjustments ==
    \A p \in ProductIds :
        LET c1 == sessions["c1"].call
            c2 == sessions["c2"].call
            q0 == start.inventory[p].quantity
        IN  (/\ sessions["c1"].pc = "done" /\ sessions["c2"].pc = "done"
             /\ c1.op = "adjust" /\ c2.op = "adjust"
             /\ c1.product = p /\ c2.product = p
             /\ q0 + c1.qty >= 0 /\ q0 + c2.qty >= 0 /\ q0 + c1.qty + c2.qty >= 0)
            => inventory[p].quantity = q0 + c1.qty + c2.qty

\* C12 (as claimed): a transfer is atomic in the persisted store: a step of a
\* transfer that writes the source decrement to the file writes the destination
\* credit and the audit entry with it.
TransferAllOrNothing ==
    [][ \A c \in Callers :
          LET t == sessions'[c].call
          IN  (/\ sessions[c].pc = "loaded"
               /\ t.op = "transfer_inventory" /\ t.from # t.to
               /\ inventory_locations' # inventory_locations)
              => /\ QuantityAt(inventory_locations', t.product, t.to)
                      = QuantityAt(sessions[c].rows, t.product, t.to) + t.qty
                 /\ Len(audit_log') = Len(sessions[c].log) + 1
                 /\ audit_log'[Len(audit_log')].action = "inventory_transfer"
      ]_vars

\* C13 (as claimed): check and mutation are one critical section per product.  Two
\* concurrent transfers of q1 and q2 from the same (product, source), each within
\* what is available but together beyond it: at most one succeeds, the source row
\* stays >= 0 and the sum over the product's rows is unchanged.  Two concurrent
\* deducts of the same product both take effect.
OneCriticalSection ==
    \A p \in ProductIds :
        LET c1 == sessions["c1"].call
            c2 == sessions["c2"].call
            both == sessions["c1"].pc = "done" /\ sessions["c2"].pc = "done"
                    /\ c1.product = p /\ c2.product = p
            available == QuantityAt(start.rows, p, c1.from)
        IN  /\ (/\ both
                /\ c1.op = "transfer_inventory" /\ c2.op = "transfer_inventory"
                /\ c1.from = c2.from /\ HasRow(start.rows, p, c1.from)
                /\ c1.qty <= available /\ c2.qty <= available
                /\ c1.qty + c2.qty > available)
               => /\ ~(c1.ok /\ c2.ok)
                  /\ QuantityAt(inventory_locations, p, c1.from) >= 0
                  /\ GetTotalInventoryByProduct(inventory_locations, p)
                       = GetTotalInventoryByProduct(start.rows, p)
            /\ (both /\ c1.op = "deduct" /\ c2.op = "deduct")
               => inventory[p].quantity
                    = Max(0, start.inventory[p].quantity - c1.qty - c2.qty)

\* C14 (as claimed): there is at most one InventoryLocation row per
\* (product_id, location_id) pair in every reachable state; a write through
\* add_inventory_location merges into the existing row of the pair.
UniqueRowPerPair ==
    \A i \in DOMAIN inventory_locations, j \in DOMAIN inventory_locations :
        (/\ inventory_locations[i].product_id = inventory_locations[j].product_id
         /\ inventory_locations[i].location_id = inventory_locations[j].location_id)
        => i = j

\* C15 (as claimed): for every product with at least one InventoryLocation row,
\* Product.quantity equals the sum of its rows, and receive, adjust, transfer and
\* deduct keep it so.
AggregateMatchesRows(inv, rows) ==
    \A p \in DOMAIN inv :
        GetInventoryLocationsOfProduct(rows, p) # << >>
        => inv[p].quantity = GetTotalInventoryByProduct(rows, p)

AggregateEqualsRowSum ==
    [][ (/\ AggregateMatchesRows(inventory, inventory_locations)
         /\ \E op \in {"receive", "adjust", "transfer", "transfer_inventory", "deduct",
                       "create_invoice"} : StockStep(op))
        => AggregateMatchesRows(inventory', inventory_locations')
      ]_vars

\* C16 (as claimed): a transfer whose source and destination location are the same
\* is rejected: no InventoryLocation row changes and no audit entry is appended.
SameLocationTransferRejected ==
    [][ (/\ StockStep("transfer_inventory") \/ StockStep("transfer")
         /\ last'.from = last'.to)
        => /\ ~last'.ok
           /\ inventory_locations' = inventory_locations
           /\ audit_log' = audit_log
      ]_vars

\* C17 (as claimed): a transfer, receive or deduct called with a quantity <= 0 is
\* rejected and changes no quantity; transfer_inventory with a zero or negative
\* quantity moves nothing back and appends no audit entry.
NonPositiveQuantityRejected ==
    [][ (/\ \E op \in {"transfer_inventory", "transfer", "receive", "deduct"} : StockStep(op)
         /\ last'.qty <= 0)
        => /\ ~last'.ok
           /\ inventory' = inventory
           /\ inventory_locations' = inventory_locations
           /\ audit_log' = audit_log
      ]_vars

\* C18 (as claimed, for the destination of a transfer): a transfer of q > 0 units
\* that names a destination location that does not exist fails and creates no
\* InventoryLocation row.
UnknownDestinationRejected ==
    [][ (/\ StockStep("transfer_inventory")
         /\ last'.qty > 0
         /\ last'.to \notin LocationIds)
        => /\ ~last'.ok
           /\ inventory_locations' = inventory_locations
      ]_vars

ScenarioHolds ==
    [][ LET total == inventory["p1"].quantity
            q     == last'.qty
        IN  /\ (StockStep("transfer_inventory") /\ q <= QuantityAt(inventory_locations, "p1", "A"))
               => /\ last'.ok
                  /\ QuantityAt(inventory_locations', "p1", "A")
                       = QuantityAt(inventory_locations, "p1", "A") - q
                  /\ QuantityAt(inventory_locations', "p1", "B") = q
                  /\ GetTotalInventoryByProduct(inventory_locations', "p1") = total
                  /\ inventory'["p1"].quantity = total
            /\ StockStep("create_invoice")
               => /\ last'.ok
                  /\ inventory'["p1"].quantity = Max(0, total - q)
            /\ (StockStep("adjust") /\ total + q < 0)
               => /\ ~last'.ok
                  /\ inventory'["p1"].quantity = total
      ]_vars

\* C20 witness: the scenario with its own numbers has run to its end: 10 units at A,
\* 4 transferred to B, 6 sold, and the adjustment of -10 rejected with the total at 4.
ScenarioWitness ==
    /\ start.inventory["p1"].quantity = 10
    /\ QuantityAt(start.rows, "p1", "A") = 10 /\ QuantityAt(start.rows, "p1", "B") = 0
    /\ QuantityAt(inventory_locations, "p1", "A") = 6
    /\ QuantityAt(inventory_locations, "p1", "B") = 4
    /\ Len(audit_log) = 1 /\ audit_log[1].action = "inventory_transfer" /\ audit_log[1].quantity = 4
    /\ Len(invoice_items) = 1 /\ invoice_items[1].item_id = "p1" /\ invoice_items[1].quantity = 6
    /\ last.op = "adjust" /\ last.qty = -10 /\ ~last.ok
    /\ inventory["p1"].quantity = 4

\* C21 (as claimed): quantity fields are written by the ledger operations only.  A
\* step that is no receive, adjust, transfer or deduct (editing a product, the quick
\* update, adding or deleting a product) changes the quantity of no existing
\* Product and of no InventoryLocation row.
LedgerOps ==
    {"receive", "adjust", "transfer", "transfer_inventory", "deduct", "create_invoice"}

QuantityWrittenByLedgerOnly ==
    [][ (last'.op \notin LedgerOps)
        => /\ \A p \in DOMAIN inventory \cap DOMAIN inventory' :
                 inventory'[p].quantity = inventory[p].quantity
           /\ inventory_locations' = inventory_locations
      ]_vars

\* C22 (as claimed): a product is deleted only when nothing references it, so every
\* InventoryLocation row and every invoice item refers to an existing product.
NoDanglingProductReference ==
    /\ \A i \in DOMAIN inventory_locations :
          inventory_locations[i].product_id \in DOMAIN inventory
    /\ \A i \in DOMAIN invoice_items : invoice_items[i].item_id \in DOMAIN inventory

\* C24 (as claimed): no two products have the same non-empty barcode.
BarcodeUnique ==
    \A p \in DOMAIN inventory, q \in DOMAIN inventory :
        (p # q /\ inventory[p].barcode # "") => inventory[p].barcode # inventory[q].barcode

\* C23 (as claimed): adjust(P, delta) with Product.quantity + delta >= 0 sets
\* Product.quantity to old + delta and appends exactly one stock_adjusted entry that
\* records the caller's reason: the selected reason, or the text typed into
\* "Specify Reason" when the selected reason is Other.
StatedReason(reason) == IF reason = "Other" THEN CustomReason ELSE reason

AdjustRecordsReason ==
    [][ LET p == last'.product  d == last'.qty
        IN  (StockStep("adjust") /\ inventory[p].quantity + d >= 0)
            => /\ last'.ok
               /\ inventory'[p].quantity = inventory[p].quantity + d
               /\ Len(audit_log') = Len(audit_log) + 1
               /\ SubSeq(audit_log', 1, Len(audit_log)) = audit_log
               /\ audit_log'[Len(audit_log')].action = "stock_adjusted"
               /\ \A reason \in Reasons :
                     audit_log' = AdjustStock(inventory, audit_log, session_user, p, d, reason).log
                     => audit_log'[Len(audit_log')].reason = StatedReason(reason)
      ]_vars

\* C25: a sale deduction, by invoice creation or by the "Deduct Stock" form, leaves
\* every InventoryLocation row's quantity as it was.
SaleLeavesRows ==
    [][ (StockStep("create_invoice") \/ StockStep("deduct"))
        => inventory_locations' = inventory_locations
      ]_vars

\* C25 witness: units of a product that has a stocked row have been deducted by hand.
SaleWithRowsWitness ==
    /\ last.op = "deduct" /\ last.ok /\ last.qty >= 1
    /\ GetTotalInventoryByProduct(inventory_locations, last.product) >= 1

\* C26: creating an invoice deducts line by line, each line from what the previous
\* lines left, so every product ends at max(0, initial - sum of its line quantities).
InvoiceDeductsCumulatively ==
    [][ StockStep("create_invoice")
        => \A p \in DOMAIN inventory :
              LET rest == inventory[p].quantity - SumQuantity(LinesOf(cart, p))
              IN  inventory'[p].quantity = IF rest < 0 THEN 0 ELSE rest
      ]_vars

\* C26 witness: an invoice with two lines for the same product has been created.
TwoLinesOneProductWitness ==
    /\ last.op = "create_invoice"
    /\ \E p \in DOMAIN inventory : Len(LinesOf(invoice_items, p)) >= 2

\* C27 (as claimed): in the store _initialize_db creates the location ledger is
\* usable: add_inventory_location creates a row, and transfer_inventory from a
\* location without a row fails with the insufficient-stock error, never with an
\* internal error.
FreshStoreLedgerUsable ==
    [][ (LocKey \notin data_keys)
        => /\ StockStep("add_inventory_location")
                => /\ last'.ok
                   /\ HasRow(inventory_locations', last'.product, last'.to)
           /\ (StockStep("transfer_inventory")
                 /\ ~HasRow(inventory_locations, last'.product, last'.from))
                => last'.msg = "not_enough"
      ]_vars

\* vocabulary of the invoice claims
PaymentsOf(pays, invoice_id) == SelectSeq(pays, LAMBDA pay : pay.invoice_id = invoice_id)

RECURSIVE SumAmounts(_)
SumAmounts(pays) == IF pays = << >> THEN 0 ELSE Head(pays).amount + SumAmounts(Tail(pays))

PaymentStep == last'.op = "record_payment" /\ Len(payments') = Len(payments) + 1

CancelledIsTerminal ==
    [][ /\ \A i \in DOMAIN invoices :
              invoices[i].status = "cancelled"
              => /\ invoices'[i].status = "cancelled"
                 /\ invoices'[i].amount_paid = invoices[i].amount_paid
                 /\ invoices'[i].balance = invoices[i].balance
        /\ (last'.op = "cancel_invoice" /\ invoices' # invoices) => inventory' = inventory
      ]_vars

\* C30 (as claimed): the login lockout.  With 5 or more recorded failures, the last
\* of them less than the lock window ago, login returns False whatever the password
\* and changes no field of the user; otherwise a login with the right password for
\* an active user succeeds, resets failed_login_attempts to 0 and appends one 'login'
\* audit entry, and a login with a wrong password adds exactly 1 to
\* failed_login_attempts.
InsideLockWindow(user, clock) ==
    /\ user.failed_login_attempts >= MaxAttempts
    /\ clock - user.last_failed_login < LockWindow

LoginLockout ==
    [][ (StockStep("login") /\ last'.product \in DOMAIN users)
        => LET username == last'.product
               user     == users[username]
               right    == user.password = HashPassword(last'.from)
           IN  /\ InsideLockWindow(user, now)
                    => ~last'.ok /\ users' = users
               /\ (~InsideLockWindow(user, now) /\ right /\ user.is_active)
                    => /\ last'.ok
                       /\ users'[username].failed_login_attempts = 0
                       /\ Len(audit_log') = Len(audit_log) + 1
                       /\ SubSeq(audit_log', 1, Len(audit_log)) = audit_log
                       /\ audit_log'[Len(audit_log')].action = "login"
               /\ (~InsideLockWindow(user, now) /\ ~right)
                    => users'[username].failed_login_attempts = user.failed_login_attempts + 1
      ]_vars

====
